---- MODULE Spec2Model ----
(***************************************************************************)
(* Model of code_duplication_analyzer.py: the token normalizer, the        *)
(* Jaccard similarity scorer, the project scanner / pair analyzer and the  *)
(* Mermaid report renderer.                                                *)
(*                                                                         *)
(* Strings on which the code does character work (method names, file      *)
(* paths, node identifiers, token texts) are sequences of one-character    *)
(* strings.  A float score intersection/union is the reduced fraction      *)
(* [num, den]; two such floats are equal exactly when the fractions are.   *)
(* A MethodInfo object is a record with an object identity oid; a pair     *)
(* tuple holds references (oids) to MethodInfo objects, as in Python.      *)
(***************************************************************************)
EXTENDS Integers, Sequences, FiniteSets, TLC

VARIABLES
    files,        \* the project on disk: sequence of [path, defs] in rglob order
    all_methods,  \* analyze_project: the inventory (list of MethodInfo)
    evaluated,    \* history: the (m1, m2) reference pairs token_similarity was called on
    pairs,        \* analyze_project: the returned list of (m1, m2, sim)
    nodes,        \* generate_mermaid: the node lines, in order
    edges,        \* generate_mermaid: the edge lines, in order
    simTable,     \* scorer harness: token_similarity over every ordered pair
    pc            \* position in the run

vars == <<files, all_methods, evaluated, pairs, nodes, edges, simTable, pc>>

-----------------------------------------------------------------------------
(* Configuration constants and bounds *)

MIN_TOKENS == 15

THRESHOLD == [num |-> 3, den |-> 4]

NOISE_FLOOR == [num |-> 3, den |-> 10]

\* Bounds: definitions per project, and free tokens per hand-built stream.
MaxMethods == 3
MaxBody == 2

-----------------------------------------------------------------------------
(* Generic helpers *)

Range(s) == {s[i] : i \in DOMAIN s}

RECURSIVE GCD(_, _)
GCD(a, b) == IF b = 0 THEN a ELSE GCD(b, a % b)

\* The float a / b (b > 0) as a reduced fraction.
Frac(a, b) == LET g == GCD(a, b) IN [num |-> a \div g, den |-> b \div g]

Zero == [num |-> 0, den |-> 1]

One == [num |-> 1, den |-> 1]

\* Float comparisons s >= t and s < t.
GE(s, t) == s.num * t.den >= t.num * s.den

LT(s, t) == s.num * t.den < t.num * s.den

RECURSIVE Flatten(_)
Flatten(ss) == IF ss = <<>> THEN <<>> ELSE Head(ss) \o Flatten(Tail(ss))

RECURSIVE SeqsUpTo(_, _)
SeqsUpTo(S, n) ==
    IF n = 0 THEN {<<>>}
    ELSE LET shorter == SeqsUpTo(S, n - 1)
         IN  shorter \cup {Append(s, x) : s \in {t \in shorter : Len(t) = n - 1}, x \in S}

-----------------------------------------------------------------------------
(* Tokens: tokenize.TokenInfo reduced to (type, string) *)

Tok(ty, str) == [type |-> ty, string |-> str]

StructuralTypes == {"INDENT", "DEDENT", "NEWLINE", "COMMENT", "NL"}

T_ENCODING == Tok("ENCODING", <<"u", "t", "f", "-", "8">>)
T_ENDMARKER == Tok("ENDMARKER", <<>>)
T_NEWLINE == Tok("NEWLINE", <<"\n">>)
T_NL == Tok("NL", <<"\n">>)
T_INDENT == Tok("INDENT", <<" ", " ", " ", " ">>)
T_DEDENT == Tok("DEDENT", <<>>)
T_COMMENT == Tok("COMMENT", <<"#">>)
T_def == Tok("NAME", <<"d", "e", "f">>)
T_pass == Tok("NAME", <<"p", "a", "s", "s">>)
T_return == Tok("NAME", <<"r", "e", "t", "u", "r", "n">>)
T_x == Tok("NAME", <<"x">>)
T_y == Tok("NAME", <<"y">>)
T_1 == Tok("NUMBER", <<"1">>)
T_2 == Tok("NUMBER", <<"2">>)
T_lpar == Tok("OP", <<"(">>)
T_rpar == Tok("OP", <<")">>)
T_colon == Tok("OP", <<":">>)
T_plus == Tok("OP", <<"+">>)

-----------------------------------------------------------------------------
(* MethodInfo *)

\* MethodInfo._hash_tokens: the (type, string) list without layout tokens.
\* sha256 is taken as injective, so the digest is represented by its preimage.
HashTokens(tokens) ==
    SelectSeq([i \in DOMAIN tokens |-> <<tokens[i].type, tokens[i].string>>],
              LAMBDA p : p[1] \notin StructuralTypes)

\* MethodInfo.__init__ (the code attribute, unused by the analysis, is left out).
MethodInfo(oid, name, file, start_line, end_line, tokens) ==
    [oid |-> oid, name |-> name, file |-> file, start_line |-> start_line,
     end_line |-> end_line, tokens |-> tokens, hash |-> HashTokens(tokens)]

-----------------------------------------------------------------------------
(* Normalizer and similarity scorer *)

Placeholder == <<"X">>

NormalizeDropped == StructuralTypes \cup {"ENDMARKER"}

\* Variant: numeric literals keep their text.
RECURSIVE normalize_tokens_KeepNumbers(_)
normalize_tokens_KeepNumbers(tokens) ==
    IF tokens = <<>> THEN <<>>
    ELSE LET t == Head(tokens)
             rest == normalize_tokens_KeepNumbers(Tail(tokens))
         IN  IF t.type \in {"NAME", "STRING"}
             THEN <<(<<t.type, Placeholder>>)>> \o rest
             ELSE IF t.type \notin NormalizeDropped
                  THEN <<(<<t.type, t.string>>)>> \o rest
                  ELSE rest

RECURSIVE normalize_tokens(_)
normalize_tokens(tokens) ==
    IF tokens = <<>> THEN <<>>
    ELSE LET t == Head(tokens)
             rest == normalize_tokens(Tail(tokens))
         IN  IF t.type \in {"NAME", "NUMBER", "STRING"}
             THEN <<(<<t.type, Placeholder>>)>> \o rest
             ELSE IF t.type \notin NormalizeDropped
                  THEN <<(<<t.type, t.string>>)>> \o rest
                  ELSE rest

\* Variant: the union taken as the sum of the two set sizes.
token_similarity_SummedUnion(m1, m2) ==
    IF Len(m1.tokens) < MIN_TOKENS \/ Len(m2.tokens) < MIN_TOKENS
    THEN Zero
    ELSE LET set1 == Range(normalize_tokens(m1.tokens))
             set2 == Range(normalize_tokens(m2.tokens))
             intersection == Cardinality(set1 \cap set2)
             union == Cardinality(set1) + Cardinality(set2)
         IN  IF union > 0 THEN Frac(intersection, union) ELSE Zero

\* Variant: the intersection computed with | like the union.
token_similarity_UnionTwice(m1, m2) ==
    IF Len(m1.tokens) < MIN_TOKENS \/ Len(m2.tokens) < MIN_TOKENS
    THEN Zero
    ELSE LET set1 == Range(normalize_tokens(m1.tokens))
             set2 == Range(normalize_tokens(m2.tokens))
             intersection == Cardinality(set1 \cup set2)
             union == Cardinality(set1 \cup set2)
         IN  IF union > 0 THEN Frac(intersection, union) ELSE Zero

\* Variant: only the first record's length is tested.
token_similarity_FirstLengthOnly(m1, m2) ==
    IF Len(m1.tokens) < MIN_TOKENS
    THEN Zero
    ELSE LET set1 == Range(normalize_tokens(m1.tokens))
             set2 == Range(normalize_tokens(m2.tokens))
             intersection == Cardinality(set1 \cap set2)
             union == Cardinality(set1 \cup set2)
         IN  IF union > 0 THEN Frac(intersection, union) ELSE Zero

\* Variant: the short-circuit requires both records to be short.
token_similarity_BothShort(m1, m2) ==
    IF Len(m1.tokens) < MIN_TOKENS /\ Len(m2.tokens) < MIN_TOKENS
    THEN Zero
    ELSE LET set1 == Range(normalize_tokens(m1.tokens))
             set2 == Range(normalize_tokens(m2.tokens))
             intersection == Cardinality(set1 \cap set2)
             union == Cardinality(set1 \cup set2)
         IN  IF union > 0 THEN Frac(intersection, union) ELSE Zero

\* Variant: the Jaccard distance instead of the Jaccard index.
token_similarity_Distance(m1, m2) ==
    IF Len(m1.tokens) < MIN_TOKENS \/ Len(m2.tokens) < MIN_TOKENS
    THEN Zero
    ELSE LET set1 == Range(normalize_tokens(m1.tokens))
             set2 == Range(normalize_tokens(m2.tokens))
             intersection == Cardinality(set1 \cap set2)
             union == Cardinality(set1 \cup set2)
         IN  IF union > 0 THEN Frac(union - intersection, union) ELSE Zero

token_similarity(m1, m2) ==
    IF Len(m1.tokens) < MIN_TOKENS \/ Len(m2.tokens) < MIN_TOKENS
    THEN Zero
    ELSE LET seq1 == normalize_tokens(m1.tokens)
             seq2 == normalize_tokens(m2.tokens)
             set1 == Range(seq1)
             set2 == Range(seq2)
             intersection == Cardinality(set1 \cap set2)
             union == Cardinality(set1 \cup set2)
         IN  IF union > 0 THEN Frac(intersection, union) ELSE Zero

-----------------------------------------------------------------------------
(* Source files and the extractor *)

N_f == <<"f">>
N_g == <<"g">>
N_h == <<"_", "h">>
N_init == <<"_", "_", "i", "n", "i", "t", "_", "_">>

\* Bodies of one statement: "pass", "return x + 1" and "return y + 2".
B_pass == <<T_pass>>
B_return == <<T_return, T_x, T_plus, T_1>>
B_renamed == <<T_return, T_y, T_plus, T_2>>

\* A definition: "def name():", the definitions nested in it, then its body
\* statement.
Def(name, body) == [name |-> name, body |-> body, inner |-> <<>>]

Nested(name, inner, body) == [name |-> name, body |-> body, inner |-> inner]

\* The function definitions a source file may hold at top level; a file is a
\* sequence of them.
DefChoices ==
    {Def(N_f, B_return), Def(N_f, B_pass), Def(N_g, B_renamed), Def(N_init, B_pass),
     Nested(N_h, <<Def(N_f, B_pass)>>, B_pass),
     Nested(N_g, <<Def(N_h, B_pass)>>, B_pass)}

\* The number of definitions in a sequence of definitions, nested ones included.
RECURSIVE DefCount(_)
DefCount(defs) ==
    IF defs = <<>> THEN 0
    ELSE 1 + DefCount(Head(defs).inner) + DefCount(Tail(defs))

\* The number of source lines of a definition.
RECURSIVE LineCount(_)
LineCount(d) ==
    IF d.inner = <<>> THEN 2
    ELSE LineCount(Head(d.inner))
             + LineCount([d EXCEPT !.inner = Tail(d.inner)])

P_ab == <<"a", "/", "b", ".", "p", "y">>
P_a_b == <<"a", "_", "b", ".", "p", "y">>
P_env == <<"e", "n", "v", "/", "c", ".", "p", "y">>

SourcePaths == {P_ab, P_a_b}

\* The INDENT token of a block at the given nesting depth.
Indent(depth) == Tok("INDENT", Flatten([i \in 1..depth |-> T_INDENT.string]))

\* tokenize.tokenize of one definition and of a whole file.
RECURSIVE DefTokensAt(_, _)
DefTokensAt(d, depth) ==
    <<T_def, Tok("NAME", d.name), T_lpar, T_rpar, T_colon, T_NEWLINE, Indent(depth)>>
        \o Flatten([i \in DOMAIN d.inner |-> DefTokensAt(d.inner[i], depth + 1)])
        \o d.body \o <<T_NEWLINE, T_DEDENT>>

DefTokens(d) == DefTokensAt(d, 1)

Tokenize(defs) ==
    <<T_ENCODING>> \o Flatten([i \in DOMAIN defs |-> DefTokens(defs[i])])
        \o <<T_ENDMARKER>>

\* Sibling definitions with the line each one starts at.
RECURSIVE Positioned(_, _)
Positioned(defs, firstLine) ==
    IF defs = <<>> THEN <<>>
    ELSE <<[def |-> Head(defs), lineno |-> firstLine]>>
             \o Positioned(Tail(defs), firstLine + LineCount(Head(defs)))

\* ast.walk is breadth-first: the nodes of one nesting level, then those
\* nested in them.
RECURSIVE WalkLevel(_)
WalkLevel(level) ==
    IF level = <<>> THEN <<>>
    ELSE [i \in DOMAIN level |->
             [name |-> level[i].def.name,
              lineno |-> level[i].lineno,
              end_lineno |-> level[i].lineno + LineCount(level[i].def) - 1]]
         \o WalkLevel(Flatten([i \in DOMAIN level |->
                                  Positioned(level[i].def.inner, level[i].lineno + 1)]))

\* Variant: only the module's own statements are visited (tree.body).
AstFunctionDefs_TopLevelOnly(defs) ==
    LET level == Positioned(defs, 1)
    IN  [i \in DOMAIN level |->
            [name |-> level[i].def.name,
             lineno |-> level[i].lineno,
             end_lineno |-> level[i].lineno + LineCount(level[i].def) - 1]]

\* ast.walk over the parsed file: the FunctionDef nodes with their line ranges.
AstFunctionDefs(defs) == WalkLevel(Positioned(defs, 1))

\* str.startswith on character sequences.
StartsWith(s, prefix) ==
    Len(s) >= Len(prefix) /\ SubSeq(s, 1, Len(prefix)) = prefix

\* The filter of extract_methods_from_file: node.name.startswith('_') and
\* node.name != '__init__' skips the node.
Skipped(name) == StartsWith(name, <<"_">>) /\ name # N_init

\* The tokens of each definition's own lines, in the order ast.walk visits them.
RECURSIVE WalkOwnTokens(_, _)
WalkOwnTokens(level, depth) ==
    IF level = <<>> THEN <<>>
    ELSE [i \in DOMAIN level |-> DefTokensAt(level[i].def, depth)]
         \o WalkOwnTokens(Flatten([i \in DOMAIN level |->
                                      Positioned(level[i].def.inner, level[i].lineno + 1)]),
                          depth + 1)

\* Variant: each record gets the tokens of its own line range.
extract_methods_from_file_OwnTokens(file, firstOid) ==
    LET visited == AstFunctionDefs(file.defs)
        own == WalkOwnTokens(Positioned(file.defs, 1), 1)
        kept == SelectSeq([i \in DOMAIN visited |-> i],
                          LAMBDA i : ~Skipped(visited[i].name))
    IN  [k \in DOMAIN kept |->
            MethodInfo(firstOid + k - 1, visited[kept[k]].name, file.path,
                       visited[kept[k]].lineno, visited[kept[k]].end_lineno,
                       own[kept[k]])]

\* The records get the object identities firstOid, firstOid + 1, ...
extract_methods_from_file(file, firstOid) ==
    LET tokens == Tokenize(file.defs)
        kept == SelectSeq(AstFunctionDefs(file.defs), LAMBDA n : ~Skipped(n.name))
    IN  [k \in DOMAIN kept |->
            MethodInfo(firstOid + k - 1, kept[k].name, file.path,
                       kept[k].lineno, kept[k].end_lineno, tokens)]

-----------------------------------------------------------------------------
(* Project scanner and pair analyzer (analyze_project) *)

\* The Python test  sub in s  on character sequences.
Contains(s, sub) ==
    \E i \in 1..(Len(s) - Len(sub) + 1) : SubSeq(s, i, i + Len(sub) - 1) = sub

Excluded(path) ==
    \/ Contains(path, <<"v", "e", "n", "v">>)
    \/ Contains(path, <<"e", "n", "v">>)
    \/ Contains(path, <<".", "g", "i", "t">>)

RECURSIVE ScanFiles(_, _)
ScanFiles(fs, acc) ==
    IF fs = <<>> THEN acc
    ELSE IF Excluded(Head(fs).path)
         THEN ScanFiles(Tail(fs), acc)
         ELSE ScanFiles(Tail(fs),
                        acc \o extract_methods_from_file(Head(fs), Len(acc) + 1))

\* itertools.combinations(range(1..n), 2), in the order it yields them.
RECURSIVE CombinationsFrom(_, _, _)
CombinationsFrom(i, j, n) ==
    IF i >= n THEN <<>>
    ELSE IF j > n THEN CombinationsFrom(i + 1, i + 2, n)
         ELSE <<(<<i, j>>)>> \o CombinationsFrom(i, j + 1, n)

\* Variant: every ordered pair of different positions (permutations).
Combinations_Permutations(n) ==
    LET RECURSIVE From(_, _)
        From(i, j) ==
            IF i > n THEN <<>>
            ELSE IF j > n THEN From(i + 1, 1)
                 ELSE IF i = j THEN From(i, j + 1)
                      ELSE <<(<<i, j>>)>> \o From(i, j + 1)
    IN  From(1, 1)

Combinations(n) == CombinationsFrom(1, 2, n)

\* One loop iteration: the pair tuple of a combination.
ScoredPair(methods, c) ==
    [m1 |-> methods[c[1]].oid, m2 |-> methods[c[2]].oid,
     sim |-> token_similarity(methods[c[1]], methods[c[2]])]

Retained(p) == GE(p.sim, NOISE_FLOOR)

\* list.sort(key=score, reverse=True): stable, descending.
RECURSIVE InsertDesc(_, _)
InsertDesc(sorted, p) ==
    IF sorted = <<>> THEN <<p>>
    ELSE IF LT(Head(sorted).sim, p.sim) THEN <<p>> \o sorted
         ELSE <<Head(sorted)>> \o InsertDesc(Tail(sorted), p)

RECURSIVE SortInto(_, _)
SortInto(ps, acc) ==
    IF ps = <<>> THEN acc ELSE SortInto(Tail(ps), InsertDesc(acc, Head(ps)))

\* Variant: the list is returned in the order the loop built it.
SortByScoreDesc_Unsorted(ps) == ps

SortByScoreDesc(ps) == SortInto(ps, <<>>)

\* Lines 79-86 on an inventory.
SimilarPairs(methods) ==
    LET combos == Combinations(Len(methods))
        scored == [k \in DOMAIN combos |-> ScoredPair(methods, combos[k])]
    IN  SortByScoreDesc(SelectSeq(scored, Retained))

-----------------------------------------------------------------------------
(* Report renderer (generate_mermaid) *)

\* str.replace of one character by another.
Replace(s, old, new) == [i \in DOMAIN s |-> IF s[i] = old THEN new ELSE s[i]]

NodeId(m) ==
    <<"n", "_">> \o Replace(Replace(m.file, "/", "_"), ".", "_")
        \o <<"_", "_">> \o m.name

\* Path(file).name: what follows the last '/'.
RECURSIVE Basename(_)
Basename(path) ==
    IF \E i \in DOMAIN path : path[i] = "/"
    THEN Basename(Tail(path))
    ELSE path

NodeLabel(m) ==
    [name |-> m.name, file |-> Basename(m.file), line |-> m.start_line]

STYLE_OK == "fill:#90EE90 stroke:#333"

STYLE_SUSPICIOUS == "fill:#FFD700 stroke:#333,stroke-width:3px"

\* Variant: a pair counts only when the method itself is a member of it.
IsSuspicious_ByIdentity(method, methods, similar_pairs) ==
    \E k \in DOMAIN similar_pairs :
        /\ \/ similar_pairs[k].m1 = method.oid
           \/ similar_pairs[k].m2 = method.oid
        /\ GE(similar_pairs[k].sim, THRESHOLD)

\* Lines 98-99: any(sim >= THRESHOLD for ... if m1.name == name or m2.name == name).
IsSuspicious(method, methods, similar_pairs) ==
    \E k \in DOMAIN similar_pairs :
        /\ \/ methods[similar_pairs[k].m1].name = method.name
           \/ methods[similar_pairs[k].m2].name = method.name
        /\ GE(similar_pairs[k].sim, THRESHOLD)

\* f"{sim:.2f}" in hundredths: the nearest one, an exact tie going to the even
\* neighbour (the ties n/8 are exact binary floats).
FormatScore(sim) ==
    LET q == (100 * sim.num) \div sim.den
        r == (100 * sim.num) % sim.den
    IN  IF 2 * r > sim.den THEN q + 1
        ELSE IF 2 * r < sim.den THEN q
        ELSE IF q % 2 = 0 THEN q ELSE q + 1

\* Lines 93-102: one node line per inventory entry (method: whose line it is).
NodeLines(methods, similar_pairs) ==
    [k \in DOMAIN methods |->
        [method |-> methods[k].oid,
         node_id |-> NodeId(methods[k]),
         label |-> NodeLabel(methods[k]),
         style |-> IF ~IsSuspicious(methods[k], methods, similar_pairs)
                   THEN STYLE_OK ELSE STYLE_SUSPICIOUS]]

\* Lines 105-111: the edge lines (pair: the position of the pair it draws).
\* Variant: the noise-reduction floor used as the edge cutoff.
DrawsEdge_AtFloor(p) == ~LT(p.sim, NOISE_FLOOR)

DrawsEdge(p) == ~LT(p.sim, THRESHOLD)

EdgeLines(methods, similar_pairs) ==
    LET line(k) ==
            [pair |-> k,
             id1 |-> NodeId(methods[similar_pairs[k].m1]),
             id2 |-> NodeId(methods[similar_pairs[k].m2]),
             label |-> FormatScore(similar_pairs[k].sim)]
        drawn == SelectSeq([k \in DOMAIN similar_pairs |-> k],
                           LAMBDA k : DrawsEdge(similar_pairs[k]))
    IN  [e \in DOMAIN drawn |-> line(drawn[e])]

-----------------------------------------------------------------------------
(* The run: scan, analyze, render *)

\* Every layout of at most MaxMethods definitions over n files.
RECURSIVE DefLayouts(_, _)
DefLayouts(n, budget) ==
    IF n = 0 THEN {<<>>}
    ELSE UNION {{<<d>> \o rest : rest \in DefLayouts(n - 1, budget - DefCount(d))} :
                    d \in {t \in SeqsUpTo(DefChoices, budget) : DefCount(t) <= budget}}

IsInjective(s) == \A i, j \in DOMAIN s : s[i] = s[j] => i = j

\* The file under an excluded directory always holds the same one definition.
EnvDefs == <<Def(N_f, B_return)>>

RECURSIVE FillFiles(_, _)
FillFiles(ps, layout) ==
    IF ps = <<>> THEN <<>>
    ELSE IF Excluded(Head(ps))
         THEN <<[path |-> Head(ps), defs |-> EnvDefs]>> \o FillFiles(Tail(ps), layout)
         ELSE <<[path |-> Head(ps), defs |-> Head(layout)]>>
                  \o FillFiles(Tail(ps), Tail(layout))

\* rglob: the source files in any order, with or without a file of an
\* excluded directory after them.
SourceOrders == {s \in SeqsUpTo(SourcePaths, Cardinality(SourcePaths)) : IsInjective(s)}

PathOrders == SourceOrders \cup {Append(s, P_env) : s \in SourceOrders}

Init ==
    /\ \E ps \in PathOrders :
         \E layout \in DefLayouts(Cardinality({i \in DOMAIN ps : ~Excluded(ps[i])}),
                                  MaxMethods) :
            files = FillFiles(ps, layout)
    /\ all_methods = <<>>
    /\ evaluated = <<>>
    /\ pairs = <<>>
    /\ nodes = <<>>
    /\ edges = <<>>
    /\ simTable = <<>>
    /\ pc = "start"

\* analyze_project, lines 72-77.
ScanProject ==
    /\ pc = "start"
    /\ all_methods' = ScanFiles(files, <<>>)
    /\ pc' = "scanned"
    /\ UNCHANGED <<files, evaluated, pairs, nodes, edges, simTable>>

\* analyze_project, lines 79-86.
AnalyzePairs ==
    /\ pc = "scanned"
    /\ evaluated' = [k \in DOMAIN Combinations(Len(all_methods)) |->
                        <<all_methods[Combinations(Len(all_methods))[k][1]].oid,
                          all_methods[Combinations(Len(all_methods))[k][2]].oid>>]
    /\ pairs' = SimilarPairs(all_methods)
    /\ pc' = "analyzed"
    /\ UNCHANGED <<files, all_methods, nodes, edges, simTable>>

GenerateMermaid ==
    /\ pc = "analyzed"
    /\ nodes' = NodeLines(all_methods, pairs)
    /\ edges' = EdgeLines(all_methods, pairs)
    /\ pc' = "done"
    /\ UNCHANGED <<files, all_methods, evaluated, pairs, simTable>>

Next == ScanProject \/ AnalyzePairs \/ GenerateMermaid

Spec == Init /\ [][Next]_vars

-----------------------------------------------------------------------------
(* The scorer on hand-built MethodInfo records: any token list is accepted   *)
(* by MethodInfo.__init__, so the streams here need not come from a file.    *)

FreeTokens == {T_x, T_y, T_plus, T_COMMENT}

Padding(n) == [i \in 1..n |-> T_NL]

\* Up to MaxBody free tokens followed by blank-line tokens, with lengths on
\* both sides of MIN_TOKENS.
Streams ==
    {body \o Padding(n) :
        body \in SeqsUpTo(FreeTokens, MaxBody),
        n \in {MIN_TOKENS - 2, MIN_TOKENS - 1}}

InitSim ==
    /\ files = <<>>
    /\ \E s1, s2 \in Streams :
           all_methods = <<MethodInfo(1, N_f, P_ab, 1, 2, s1),
                           MethodInfo(2, N_g, P_ab, 3, 4, s2)>>
    /\ evaluated = <<>>
    /\ pairs = <<>>
    /\ nodes = <<>>
    /\ edges = <<>>
    /\ simTable = <<>>
    /\ pc = "built"

\* The scorer applied to every ordered pair of records, self-pairs included.
ScoreAll ==
    /\ pc = "built"
    /\ simTable' = [i \in DOMAIN all_methods |->
                        [j \in DOMAIN all_methods |->
                            token_similarity(all_methods[i], all_methods[j])]]
    /\ pc' = "scanned"
    /\ UNCHANGED <<files, all_methods, evaluated, pairs, nodes, edges>>

NextSim == ScoreAll \/ AnalyzePairs \/ GenerateMermaid

SpecSim == InitSim /\ [][NextSim]_vars

-----------------------------------------------------------------------------
(* Vocabulary of the properties *)

Canon(m) == Range(normalize_tokens(m.tokens))

RawCount(m) == Len(m.tokens)

Scored == pc \in {"scanned", "analyzed", "done"} /\ simTable # <<>>

Analyzed == pc \in {"analyzed", "done"}

Rendered == pc = "done"

SuspiciousNodes == {k \in DOMAIN nodes : nodes[k].style = STYLE_SUSPICIOUS}

\* The canonical tokens of one definition's own lines, and the Jaccard index
\* of two definitions' own lines: what "near-duplicate" and "unrelated" mean
\* for functions of the same file.
OwnCanon(d) == Range(normalize_tokens(DefTokens(d)))

OwnSimilarity(d1, d2) ==
    Frac(Cardinality(OwnCanon(d1) \cap OwnCanon(d2)),
         Cardinality(OwnCanon(d1) \cup OwnCanon(d2)))

\* One file, three public functions with different names: a and b are
\* near-duplicates, c is unrelated to both.
DuplicatePairAndStranger(a, b, c) ==
    /\ Len(files) = 1
    /\ ~Excluded(files[1].path)
    /\ Len(files[1].defs) = 3
    /\ {a, b, c} = 1..3
    /\ \A i \in 1..3 : files[1].defs[i].inner = <<>>
    /\ \A i \in 1..3 : ~Skipped(files[1].defs[i].name)
    /\ \A i, j \in 1..3 : files[1].defs[i].name = files[1].defs[j].name => i = j
    /\ GE(OwnSimilarity(files[1].defs[a], files[1].defs[b]), THRESHOLD)
    /\ LT(OwnSimilarity(files[1].defs[a], files[1].defs[c]), THRESHOLD)
    /\ LT(OwnSimilarity(files[1].defs[b], files[1].defs[c]), THRESHOLD)

-----------------------------------------------------------------------------
(* Properties *)

\* C1: for a project of one file with three public functions, two of them
\* near-duplicates and the third unrelated, the report has exactly three
\* nodes, exactly one edge (joining the duplicate pair) and exactly two
\* suspicious nodes.
C1_EndToEndReport ==
    Rendered =>
        \A a, b, c \in 1..3 :
            DuplicatePairAndStranger(a, b, c) =>
                /\ Len(nodes) = 3
                /\ Len(edges) = 1
                /\ {edges[1].id1, edges[1].id2}
                       = {NodeId(all_methods[a]), NodeId(all_methods[b])}
                /\ Cardinality(SuspiciousNodes) = 2

C3_IdenticalSets_AsStated ==
    Scored =>
        \A i, j \in DOMAIN all_methods :
            Canon(all_methods[i]) = Canon(all_methods[j]) => simTable[i][j] = One

\* C3 amended: two records that both have at least MIN_TOKENS raw tokens and
\* whose token streams normalize to the same non-empty canonical set score 1.0.
C3_IdenticalSets ==
    Scored =>
        \A i, j \in DOMAIN all_methods :
            ( /\ Canon(all_methods[i]) = Canon(all_methods[j])
              /\ Canon(all_methods[i]) # {}
              /\ RawCount(all_methods[i]) >= MIN_TOKENS
              /\ RawCount(all_methods[j]) >= MIN_TOKENS )
                => simTable[i][j] = One

C3_Witness ==
    /\ Scored
    /\ all_methods[1].tokens # all_methods[2].tokens
    /\ normalize_tokens(all_methods[1].tokens) # normalize_tokens(all_methods[2].tokens)
    /\ Canon(all_methods[1]) = Canon(all_methods[2])
    /\ Canon(all_methods[1]) # {}
    /\ RawCount(all_methods[1]) >= MIN_TOKENS
    /\ RawCount(all_methods[2]) >= MIN_TOKENS
    /\ simTable[1][2] = One

\* C4: the score is symmetric, token_similarity(A, B) = token_similarity(B, A),
\* also when one or both records are below the minimum-tokens threshold.
C4_Symmetric ==
    Scored =>
        \A i, j \in DOMAIN all_methods : simTable[i][j] = simTable[j][i]

C4_Witness ==
    /\ Scored
    /\ RawCount(all_methods[1]) < MIN_TOKENS
    /\ RawCount(all_methods[2]) >= MIN_TOKENS
    /\ Canon(all_methods[1]) # {}
    /\ Canon(all_methods[1]) # Canon(all_methods[2])
    /\ simTable[1][2] = simTable[2][1]

\* C5: every score lies in [0, 1], and it is exactly 0 when the raw token
\* count of either record is below MIN_TOKENS.
C5_RangeAndShortCircuit ==
    Scored =>
        \A i, j \in DOMAIN all_methods :
            /\ simTable[i][j].den > 0
            /\ 0 <= simTable[i][j].num
            /\ simTable[i][j].num <= simTable[i][j].den
            /\ (RawCount(all_methods[i]) < MIN_TOKENS \/ RawCount(all_methods[j]) < MIN_TOKENS)
                   => simTable[i][j] = Zero

C5_Witness ==
    /\ Scored
    /\ RawCount(all_methods[1]) = MIN_TOKENS - 1
    /\ RawCount(all_methods[2]) >= MIN_TOKENS
    /\ Canon(all_methods[1]) = Canon(all_methods[2])
    /\ Canon(all_methods[1]) # {}
    /\ simTable[1][2] = Zero
    /\ simTable[2][2] = One

\* C6: two records whose canonical token sets are disjoint score 0.0, and the
\* report has no edge between them.
C6_DisjointSets ==
    Scored =>
        \A i, j \in DOMAIN all_methods :
            Canon(all_methods[i]) \cap Canon(all_methods[j]) = {} =>
                /\ simTable[i][j] = Zero
                /\ Rendered =>
                       \A e \in DOMAIN edges :
                           {pairs[edges[e].pair].m1, pairs[edges[e].pair].m2}
                               # {all_methods[i].oid, all_methods[j].oid}

C6_Witness ==
    /\ Scored
    /\ Rendered
    /\ RawCount(all_methods[1]) >= MIN_TOKENS
    /\ RawCount(all_methods[2]) >= MIN_TOKENS
    /\ Canon(all_methods[1]) # {}
    /\ Canon(all_methods[2]) # {}
    /\ Canon(all_methods[1]) \cap Canon(all_methods[2]) = {}
    /\ simTable[1][2] = Zero
    /\ edges = <<>>

\* The names of the members of the retained pairs scoring >= THRESHOLD.
FlaggedNames ==
    UNION {{all_methods[pairs[k].m1].name, all_methods[pairs[k].m2].name} :
              k \in {q \in DOMAIN pairs : GE(pairs[q].sim, THRESHOLD)}}

\* The records that are themselves a member of such a pair.
FlaggedMethods ==
    UNION {{pairs[k].m1, pairs[k].m2} :
              k \in {q \in DOMAIN pairs : GE(pairs[q].sim, THRESHOLD)}}

C8_EdgesAtThreshold ==
    Rendered =>
        /\ \A e \in DOMAIN edges : edges[e].pair \in DOMAIN pairs
        /\ \A k \in DOMAIN pairs :
               Cardinality({e \in DOMAIN edges : edges[e].pair = k})
                   = IF GE(pairs[k].sim, THRESHOLD) THEN 1 ELSE 0
        /\ (\A k \in DOMAIN pairs : LT(pairs[k].sim, THRESHOLD)) => edges = <<>>

C8_Witness ==
    /\ Rendered
    /\ pairs # <<>>
    /\ \A k \in DOMAIN pairs :
           GE(pairs[k].sim, NOISE_FLOOR) /\ LT(pairs[k].sim, THRESHOLD)
    /\ edges = <<>>

\* C9: the pair list analyze_project returns is in non-increasing order of
\* score and holds no pair scoring below the noise-reduction floor 0.30.
C9_SortedAboveFloor ==
    Analyzed =>
        /\ \A k \in DOMAIN pairs : GE(pairs[k].sim, NOISE_FLOOR)
        /\ \A k \in 1..(Len(pairs) - 1) : GE(pairs[k].sim, pairs[k + 1].sim)

\* The position at which the loop scored the pair (m1, m2).
EvaluatedAt(m1, m2) == CHOOSE q \in DOMAIN evaluated : evaluated[q] = <<m1, m2>>

C9_Witness ==
    /\ Analyzed
    /\ \E k, l \in DOMAIN pairs :
           /\ k < l
           /\ LT(pairs[l].sim, pairs[k].sim)
           /\ EvaluatedAt(pairs[l].m1, pairs[l].m2) < EvaluatedAt(pairs[k].m1, pairs[k].m2)

Oids == {all_methods[i].oid : i \in DOMAIN all_methods}

\* C10: token_similarity is evaluated exactly once for every unordered pair of
\* distinct inventory records and never for a record with itself; the pair
\* list holds exactly one entry for each such pair scoring >= 0.30 and
\* nothing else.
C10_EveryPairOnce ==
    Analyzed =>
        /\ \A q \in DOMAIN evaluated :
               /\ evaluated[q][1] # evaluated[q][2]
               /\ {evaluated[q][1], evaluated[q][2]} \subseteq Oids
        /\ \A a, b \in Oids :
               a # b =>
                   /\ Cardinality({q \in DOMAIN evaluated :
                                      {evaluated[q][1], evaluated[q][2]} = {a, b}}) = 1
                   /\ Cardinality({k \in DOMAIN pairs : {pairs[k].m1, pairs[k].m2} = {a, b}})
                          = IF GE(token_similarity(all_methods[a], all_methods[b]), NOISE_FLOOR)
                            THEN 1 ELSE 0
        /\ \A k \in DOMAIN pairs :
               /\ pairs[k].m1 # pairs[k].m2
               /\ {pairs[k].m1, pairs[k].m2} \subseteq Oids
               /\ pairs[k].sim
                      = token_similarity(all_methods[pairs[k].m1], all_methods[pairs[k].m2])

C10_Witness ==
    /\ Analyzed
    /\ Len(all_methods) = 3
    /\ Len(evaluated) = 3
    /\ Len(pairs) = 1

Scanned == pc # "start" /\ files # <<>>

\* The scanned file a record was extracted from.
FileOf(m) == files[CHOOSE k \in DOMAIN files : files[k].path = m.file]

\* C11: every record extracted from a file carries that file's whole token
\* stream, not the tokens of its own line range, so the records of one file
\* have equal tokens, equal raw token counts and equal content hashes.
C11_WholeFileTokens ==
    Scanned =>
        /\ \A i \in DOMAIN all_methods :
               all_methods[i].tokens = Tokenize(FileOf(all_methods[i]).defs)
        /\ \A i, j \in DOMAIN all_methods :
               all_methods[i].file = all_methods[j].file =>
                   /\ all_methods[i].tokens = all_methods[j].tokens
                   /\ RawCount(all_methods[i]) = RawCount(all_methods[j])
                   /\ all_methods[i].hash = all_methods[j].hash

\* Two records of one file, on disjoint line ranges, with different bodies.
C11_Witness ==
    /\ Scanned
    /\ \E i, j \in DOMAIN all_methods :
           /\ all_methods[i].file = all_methods[j].file
           /\ all_methods[i].end_line < all_methods[j].start_line
           /\ \E a, b \in DOMAIN FileOf(all_methods[i]).defs :
                  /\ FileOf(all_methods[i]).defs[a].name = all_methods[i].name
                  /\ FileOf(all_methods[i]).defs[b].name = all_methods[j].name
                  /\ FileOf(all_methods[i]).defs[a].body # FileOf(all_methods[i]).defs[b].body
           /\ all_methods[i].tokens = all_methods[j].tokens
           /\ all_methods[i].hash = all_methods[j].hash

\* Every definition of a sequence of sibling definitions, at any depth, with
\* the line it starts at.
RECURSIVE DefsIn(_, _)
DefsIn(defs, firstLine) ==
    IF defs = <<>> THEN {}
    ELSE {[name |-> Head(defs).name, lineno |-> firstLine]}
             \cup DefsIn(Head(defs).inner, firstLine + 1)
             \cup DefsIn(Tail(defs), firstLine + LineCount(Head(defs)))

IsPublic(name) == name[1] # "_" \/ name = N_init

RecordsOf(path, d) ==
    {i \in DOMAIN all_methods :
        /\ all_methods[i].file = path
        /\ all_methods[i].name = d.name
        /\ all_methods[i].start_line = d.lineno}

\* C12: a scanned file yields exactly one record for each function definition,
\* at any nesting depth, whose name does not start with an underscore or is
\* __init__, and none for the other definitions; two definitions of one name
\* in one file yield two distinct records.
C12_OneRecordPerPublicDef ==
    Scanned =>
        /\ \A k \in DOMAIN files :
               ~Excluded(files[k].path) =>
                   /\ \A d \in DefsIn(files[k].defs, 1) :
                          Cardinality(RecordsOf(files[k].path, d))
                              = IF IsPublic(d.name) THEN 1 ELSE 0
                   /\ Cardinality({i \in DOMAIN all_methods :
                                      all_methods[i].file = files[k].path})
                          = Cardinality({d \in DefsIn(files[k].defs, 1) : IsPublic(d.name)})
        /\ \A i, j \in DOMAIN all_methods :
               all_methods[i].oid = all_methods[j].oid => i = j

\* A nested public definition inside a skipped one, and a second definition
\* of the same name in the same file: two records.
C12_Witness ==
    /\ Scanned
    /\ \E k \in DOMAIN files :
           /\ \E d \in DefsIn(files[k].defs, 1) : ~IsPublic(d.name) /\ d.lineno = 1
           /\ \E i, j \in DOMAIN all_methods :
                  /\ i # j
                  /\ all_methods[i].file = files[k].path
                  /\ all_methods[j].file = files[k].path
                  /\ all_methods[i].name = all_methods[j].name
                  /\ all_methods[i].oid # all_methods[j].oid
                  /\ all_methods[i].start_line = 2
                  /\ all_methods[j].start_line > all_methods[i].end_line

LiteralTypes == {"NAME", "NUMBER", "STRING"}

LayoutTypes == {"INDENT", "DEDENT", "NEWLINE", "COMMENT", "NL", "ENDMARKER"}

\* Two token streams that differ at most in the text of identifier, number
\* and string tokens.
SameExceptLiteralText(s, t) ==
    /\ Len(s) = Len(t)
    /\ \A i \in DOMAIN s :
           /\ s[i].type = t[i].type
           /\ s[i].type \notin LiteralTypes => s[i].string = t[i].string

\* The canonical sequence a stream should have: the layout tokens dropped, the
\* rest in order, literals as (type, "X") and the others as (type, text).
ExpectedCanonical(ts) ==
    LET kept == SelectSeq([i \in DOMAIN ts |-> i], LAMBDA i : ts[i].type \notin LayoutTypes)
    IN  [k \in DOMAIN kept |->
            IF ts[kept[k]].type \in LiteralTypes
            THEN <<ts[kept[k]].type, <<"X">>>>
            ELSE <<ts[kept[k]].type, ts[kept[k]].string>>]

\* The score the pair list holds for two records, if it holds one.
ListedScores(a, b) ==
    {pairs[q].sim : q \in {r \in DOMAIN pairs : {pairs[r].m1, pairs[r].m2} = {a, b}}}

\* The record extracted from the top-level definition at position a of file k.
RecordOfDef(k, a) ==
    {i \in DOMAIN all_methods :
        /\ all_methods[i].file = files[k].path
        /\ all_methods[i].name = files[k].defs[a].name
        /\ all_methods[i].start_line = Positioned(files[k].defs, 1)[a].lineno}

\* Two different top-level definitions of a scanned file whose own token
\* streams differ at most in literal text.
RenamedTwins(k, a, b) ==
    /\ ~Excluded(files[k].path)
    /\ a # b
    /\ SameExceptLiteralText(DefTokens(files[k].defs[a]), DefTokens(files[k].defs[b]))

NodesWithId(id) == {k \in DOMAIN nodes : nodes[k].node_id = id}

\* C14: distinct records of the inventory get distinct node identifiers, so
\* each endpoint identifier of an edge names exactly one node of the report,
\* the node of the pair's member.
C14_DistinctNodeIds ==
    Rendered =>
        /\ \A k, l \in DOMAIN nodes :
               nodes[k].method # nodes[l].method => nodes[k].node_id # nodes[l].node_id
        /\ \A e \in DOMAIN edges :
               /\ \E k \in DOMAIN nodes :
                      /\ NodesWithId(edges[e].id1) = {k}
                      /\ nodes[k].method = pairs[edges[e].pair].m1
               /\ \E k \in DOMAIN nodes :
                      /\ NodesWithId(edges[e].id2) = {k}
                      /\ nodes[k].method = pairs[edges[e].pair].m2

====
